---- MODULE Spec2Model ----
(***************************************************************************)
(* matrixmail: main() in src/main.rs, both modes.                          *)
(*                                                                         *)
(* A run starts at the dispatch on the file name of argv[0].  Setup mode   *)
(* is login() (the prompts, the client build, the password login) and one  *)
(* save_session.  Send mode parses the command line, reads the body from   *)
(* standard input and composes the message, then loads the session file,   *)
(* builds and restores the client, runs the bootstrap sync, then for each  *)
(* address send_message (get_room / join_room_by_id / send) followed by    *)
(* the "Sync again" loop, and at the end save_session.  Every remote call  *)
(* is one step whose outcome (Ok / Err, returned next_batch, changes of    *)
(* the room view) is chosen by the environment.  `log` is the history of   *)
(* the calls made since the most recent successful sync (that sync is its  *)
(* first entry), `call` the most recent call with the data of its request  *)
(* and response, `sent` the send requests issued so far.                   *)
(***************************************************************************)
EXTENDS Integers, Sequences, FiniteSets, TLC

\* ---------------------------------------------------------------- bounds
MaxAddrs == 2          \* longest address list on the command line
MaxToken == 2          \* sync checkpoints are 1..MaxToken
MaxSyncFail == 1       \* failed sync_once calls in a row
MaxStrLen == 2         \* longest body read from standard input (SpecMessage)

\* Option::None of session.sync_token / refresh_token / SyncSettings.token
NoToken == 0

Rooms == {"!a:hs", "!b:hs"}
\* matrix_sdk::RoomState as seen through client.get_room(); "absent" is None
RoomStates == {"absent", "joined", "left"}
Homeservers == {"https://hs.example", "not a url"}
UserId == "@u:hs"
DeviceId == "DEV"
AccessTokens == {"at1", "at2"}
RefreshTokens == {"rt1", "rt2"}
NoRefresh == "none"    \* Option::None of refresh_token

Tokens == 1..MaxToken
OptTokens == {NoToken} \cup Tokens

\* struct Session
Session(hs, at, rt, st) ==
    [homeserver |-> hs, user_id |-> UserId, device_id |-> DeviceId,
     access_token |-> at, refresh_token |-> rt, sync_token |-> st]

StoredSessions ==
    {Session(hs, "at1", rt, st) :
        hs \in Homeservers, rt \in {NoRefresh, "rt1"}, st \in OptTokens}

\* a session file that deserializes although its access_token is the empty
\* string: `access_token: String` accepts any JSON string
EmptyTokenSession == Session("https://hs.example", "", NoRefresh, NoToken)

NoSession == Session("", "", NoRefresh, NoToken)

\* contents of <data-dir>/login
Files ==
    {[kind |-> "absent", session |-> NoSession], [kind |-> "corrupt", session |-> NoSession]}
    \cup {[kind |-> "valid", session |-> s] : s \in StoredSessions \cup {EmptyTokenSession}}

RECURSIVE SeqsUpTo(_, _)
SeqsUpTo(S, n) ==
    IF n = 0 THEN {<<>>}
    ELSE LET shorter == SeqsUpTo(S, n - 1)
         IN shorter \cup {Append(s, x) : s \in {t \in shorter : Len(t) = n - 1}, x \in S}

\* Args.addresses: required = true, num_args = 1..
AddressLists == {s \in SeqsUpTo(Rooms, MaxAddrs) : Len(s) >= 1}

\* the positional arguments as typed: room ids, or a word that is no room id
Words == Rooms \cup {"room"}
ArgLists == SeqsUpTo(Words, MaxAddrs)

\* argv[0] as its path components
SendArgv0s == {<<"mail">>, <<"usr", "bin", "mailx">>}
Argv0s == SendArgv0s \cup {<<"matrixmail">>, <<"mail", "matrixmail">>, <<"..">>}

\* text is a sequence of characters
Chars == {" ", "\n", "a"}
Strings == SeqsUpTo(Chars, MaxStrLen)

\* Args.subject: Option<String>
NoSubject == [some |-> FALSE, text |-> <<>>]
Some(text) == [some |-> TRUE, text |-> text]
Subjects ==
    {NoSubject, Some(<<>>), Some(<<" ", "a", "\n">>), Some(<<"a", " ", "a">>),
     Some(<<"\n", " ">>)}

\* the command line and standard input of the runs of Spec
RunSubject == Some(<<" ", "a">>)
RunStdin == <<"a", "\n", "\n", "a", "\n">>

VARIABLES
    pc,             \* position in main()
    argv0,          \* env::args().nth(0) as path components
    mode,           \* the branch taken at `if name != "mail" && name != "mailx"`
    subject,        \* args.subject
    stdin,          \* what standard input holds
    body,           \* let mut body
    message,        \* let message
    homeserver,     \* login(): let mut homeserver
    sent,           \* the send requests issued so far, in order
    addresses,      \* args.addresses
    idx,            \* position of `address` in the for loop (1-based)
    file,           \* the session file on disk
    loaded,         \* the session file as it was when the run started
    session,        \* let mut session
    sync_settings,  \* the token of sync_settings (NoToken: full sync)
    client,         \* the client's current token pair (matrix_auth().session())
    rooms,          \* the client's local room view
    log,            \* the calls made since the latest successful sync, that one first
    call            \* the most recent call with its request and response data

\* what is fixed before the session is loaded
invocation == <<argv0, mode, subject, stdin, body, message, homeserver>>

vars ==
    <<pc, invocation, sent, addresses, idx, file, loaded, session, sync_settings,
      client, rooms, log, call>>

\* ---------------------------------------------------------------- log
Entry(op, i, ok) == [op |-> op, idx |-> i, ok |-> ok]

Call(op, i, room, token, ok, next_batch) ==
    [op |-> op, idx |-> i, room |-> room, token |-> token, ok |-> ok,
     next_batch |-> next_batch]

NoCall == Call("none", 0, "", NoToken, FALSE, NoToken)

\* a call is made: it is appended to the history and becomes the most recent one
\* (a successful sync starts the history afresh, see SyncOnceOk)
Made(op, room, token, ok, next_batch) ==
    /\ log' = Append(log, Entry(op, idx, ok))
    /\ call' = Call(op, idx, room, token, ok, next_batch)

IsSync(e) == e.op = "sync"
SyncFailures == Cardinality({k \in 1..Len(log) : IsSync(log[k]) /\ ~log[k].ok})

\* Url::parse(&session.homeserver), Url::parse(&homeserver)
UrlParses(hs) ==
    hs \in {"https://hs.example", "http://hs.example", "https://matrix.org"}

\* client.homeserver().to_string(): the parsed URL written out, with its path
UrlToString(hs) == hs \o "/"

\* Option::None of Path::file_name()
NoName == ""

\* FileName taking the first component of the path in place of the last
FirstName(path) ==
    IF path = <<>> \/ path[1] = ".." THEN NoName ELSE path[1]

\* Path::new(&arg0).file_name(): the last component, None when the path is
\* empty or ends in ".."
FileName(path) ==
    IF path = <<>> \/ path[Len(path)] = ".." THEN NoName ELSE path[Len(path)]

\* char::is_whitespace
IsWhitespace(c) == c \in {" ", "\n", "\t"}

\* str::trim_start
RECURSIVE TrimStart(_)
TrimStart(text) ==
    IF text # <<>> /\ IsWhitespace(Head(text)) THEN TrimStart(Tail(text)) ELSE text

\* str::trim_end
RECURSIVE TrimEnd(_)
TrimEnd(text) ==
    IF text # <<>> /\ IsWhitespace(text[Len(text)])
    THEN TrimEnd(SubSeq(text, 1, Len(text) - 1))
    ELSE text

\* Trim with the trailing whitespace left in place
TrimStartOnly(text) == TrimStart(text)

\* str::trim
Trim(text) == TrimEnd(TrimStart(text))

\* let message = match args.subject {
\*     Some(subject) => format!("{}\n\n{}", subject.trim(), body.trim()),
\*     None => String::from(body.trim()) };
Message(subj, text) ==
    IF subj.some THEN Trim(subj.text) \o <<"\n", "\n">> \o Trim(text)
    ELSE Trim(text)

\* what can be typed at the homeserver prompt: an optional scheme and the rest
Typed ==
    [scheme : {"", "http://", "https://"}, rest : {"", "hs.example", "not a url"}]

\* login(): the default homeserver, then the default scheme
HomeserverOf(typed) ==
    LET given == IF typed.scheme = "" /\ typed.rest = "" THEN [typed EXCEPT !.rest = "matrix.org"]
                 ELSE typed
    IN  IF given.scheme # "" THEN given.scheme \o given.rest
        ELSE "https://" \o given.rest

\* the positions of setup mode (login and the save that follows it)
SetupPcs ==
    {"prompt_homeserver", "prompt_user", "getpass", "prompt_device_name",
     "prompt_display_name", "login_build_client", "login_username", "new_session",
     "setup_save"}

\* the positions of send mode
SendPcs ==
    {"parse_args", "read_stdin", "message", "load_session", "build_client",
     "restore_session", "sync_settings", "initial_sync", "get_room", "join_room",
     "send", "sync_again", "save_session"}

\* the process has ended
Exits == {"exit_ok", "exit_err", "exit_usage", "panic"}

\* the values the variables take
TypeOK ==
    /\ pc \in {"dispatch"} \cup SetupPcs \cup SendPcs \cup Exits
    /\ argv0 \in Argv0s
    /\ mode \in {"start", "setup", "send"}
    /\ subject \in Subjects \cup {RunSubject}
    /\ stdin \in Strings \cup {RunStdin}
    /\ body \in {<<>>, stdin}
    /\ message \in {<<>>, Message(subject, body)}
    /\ addresses \in ArgLists
    /\ idx \in 0..Len(addresses)
    /\ \A k \in 1..Len(sent) : sent[k].idx \in 1..idx
    /\ file.kind \in {"absent", "corrupt", "valid"}
    /\ loaded \in Files
    /\ session.sync_token \in OptTokens
    /\ session.access_token \in AccessTokens \cup {""}
    /\ session.refresh_token \in RefreshTokens \cup {NoRefresh}
    /\ sync_settings \in OptTokens
    /\ client.access_token \in AccessTokens \cup {""}
    /\ client.refresh_token \in RefreshTokens \cup {NoRefresh}
    /\ rooms \in [Rooms -> RoomStates]
    /\ \A k \in 1..Len(log) :
          log[k].op \in {"sync", "get_room", "join", "send", "save", "prompt",
                         "getpass", "build", "login"}
    /\ call.op \in {"none", "sync", "get_room", "join", "send", "save", "prompt",
                     "getpass", "build", "login"}
    /\ Len(log) = 0 <=> call = NoCall
    /\ Len(log) > 0 => log[Len(log)] = Entry(call.op, call.idx, call.ok)

\* ---------------------------------------------------------------- Init
NoClient == [access_token |-> "", refresh_token |-> NoRefresh]

\* before main() runs: nothing read, nothing called
Start ==
    /\ pc = "dispatch"
    /\ mode = "start"
    /\ body = <<>>
    /\ message = <<>>
    /\ homeserver = ""
    /\ sent = <<>>
    /\ idx = 0
    /\ session = NoSession
    /\ sync_settings = NoToken
    /\ client = NoClient
    /\ log = <<>>
    /\ call = NoCall

\* an invocation without arguments and with empty standard input, under any name
Bare ==
    /\ argv0 \in Argv0s
    /\ addresses = <<>>
    /\ subject = NoSubject
    /\ stdin = <<>>
    /\ file \in Files
    /\ rooms = [r \in Rooms |-> "absent"]

\* the invocations as mail or mailx with any arguments, session file and room view
Init ==
    /\ Start
    /\ \/ Bare
       \/ /\ argv0 \in SendArgv0s
          /\ addresses \in ArgLists
          /\ subject = RunSubject
          /\ stdin = RunStdin
          /\ file \in Files
          /\ rooms \in [Rooms -> RoomStates]
    /\ loaded = file

\* the invocations of Init by the name mail or by a name of setup mode
InitFair == Init /\ argv0 # <<"usr", "bin", "mailx">>

\* the invocations as mail with any subject and body, two addresses, a stored
\* session and a room view that needs one join
InitMessage ==
    /\ Start
    /\ \/ Bare
       \/ /\ argv0 = <<"mail">>
          /\ addresses = <<"!a:hs", "!b:hs">>
          /\ subject \in Subjects
          /\ stdin \in Strings
          /\ file = [kind |-> "valid", session |-> Session("https://hs.example", "at1", NoRefresh, NoToken)]
          /\ rooms = [r \in Rooms |-> IF r = "!a:hs" THEN "joined" ELSE "absent"]
    /\ loaded = file

\* ---------------------------------------------------------------- actions

\* let name = Path::new(&arg0).file_name().unwrap()..;
\* if name != "mail" && name != "mailx" { setup } else { send }
Dispatch ==
    /\ pc = "dispatch"
    /\ LET name == FileName(argv0)
       IN  IF name = NoName
           THEN pc' = "panic" /\ mode' = mode
           ELSE IF name # "mail" /\ name # "mailx"
                THEN pc' = "prompt_homeserver" /\ mode' = "setup"
                ELSE pc' = "parse_args" /\ mode' = "send"
    /\ UNCHANGED <<argv0, subject, stdin, body, message, homeserver, sent, addresses, idx,
                   file, loaded, session, sync_settings, client, rooms, log, call>>

\* ------------------------------------------------------------ setup mode

\* a step of login() whose Err is returned with `?` and leaves main as Err
LoginStep(op, next) ==
    \E ok \in BOOLEAN :
        /\ Made(op, "", NoToken, ok, NoToken)
        /\ pc' = IF ok THEN next ELSE "exit_err"

\* let homeserver = prompt(..)?; then the two defaults
PromptHomeserver ==
    /\ pc = "prompt_homeserver"
    /\ LoginStep("prompt", "prompt_user")
    /\ \E typed \in Typed :
          homeserver' = IF pc' = "prompt_user" THEN HomeserverOf(typed) ELSE homeserver
    /\ UNCHANGED <<argv0, mode, subject, stdin, body, message, sent, addresses, idx,
                   file, loaded, session, sync_settings, client, rooms>>

\* let user = prompt("User: ")?;
PromptUser ==
    /\ pc = "prompt_user"
    /\ LoginStep("prompt", "getpass")
    /\ UNCHANGED <<invocation, sent, addresses, idx, file, loaded, session, sync_settings,
                   client, rooms>>

\* let password = getpass("Password: ")?;
Getpass ==
    /\ pc = "getpass"
    /\ LoginStep("getpass", "prompt_device_name")
    /\ UNCHANGED <<invocation, sent, addresses, idx, file, loaded, session, sync_settings,
                   client, rooms>>

\* let device_name = prompt(..)?;
PromptDeviceName ==
    /\ pc = "prompt_device_name"
    /\ LoginStep("prompt", "prompt_display_name")
    /\ UNCHANGED <<invocation, sent, addresses, idx, file, loaded, session, sync_settings,
                   client, rooms>>

\* env::var("USER").unwrap() panics when USER is not set, before the prompt;
\* let display_name = prompt(..)?;
PromptDisplayName ==
    /\ pc = "prompt_display_name"
    /\ \E user_set \in BOOLEAN :
          IF user_set
          THEN LoginStep("prompt", "login_build_client")
          ELSE pc' = "panic" /\ UNCHANGED <<log, call>>
    /\ UNCHANGED <<invocation, sent, addresses, idx, file, loaded, session, sync_settings,
                   client, rooms>>

\* Client::builder().homeserver_url(Url::parse(&homeserver)?)..build().await?
LoginBuildClient ==
    /\ pc = "login_build_client"
    /\ \E built \in BOOLEAN :
          LET ok == UrlParses(homeserver) /\ built
          IN  /\ Made("build", "", NoToken, ok, NoToken)
              /\ pc' = IF ok THEN "login_username" ELSE "exit_err"
    /\ UNCHANGED <<invocation, sent, addresses, idx, file, loaded, session, sync_settings,
                   client, rooms>>

\* LoginUsername with the session written whatever the login returned
LoginUsernameUnchecked ==
    /\ pc = "login_username"
    /\ \E ok \in BOOLEAN, rt \in {NoRefresh, "rt1"} :
          /\ Made("login", "", NoToken, ok, NoToken)
          /\ client' = [access_token |-> "at1", refresh_token |-> rt]
          /\ pc' = "new_session"
    /\ UNCHANGED <<invocation, sent, addresses, idx, file, loaded, session, sync_settings,
                   rooms>>

\* client.matrix_auth().login_username(&user, &password)...await?
LoginUsername ==
    /\ pc = "login_username"
    /\ \E ok \in BOOLEAN, rt \in {NoRefresh, "rt1"} :
          /\ Made("login", "", NoToken, ok, NoToken)
          /\ IF ok
             THEN /\ client' = [access_token |-> "at1", refresh_token |-> rt]
                  /\ pc' = "new_session"
             ELSE /\ pc' = "exit_err"
                  /\ UNCHANGED client
    /\ UNCHANGED <<invocation, sent, addresses, idx, file, loaded, session, sync_settings,
                   rooms>>

\* let session = Session { homeserver: client.homeserver().to_string(), ..,
\*                         sync_token: None };
NewSession ==
    /\ pc = "new_session"
    /\ session' = Session(UrlToString(homeserver), client.access_token,
                          client.refresh_token, NoToken)
    /\ pc' = "setup_save"
    /\ UNCHANGED <<invocation, sent, addresses, idx, file, loaded, sync_settings, client,
                   rooms, log, call>>

\* what save_session leaves on disk: nothing new when the file could not be
\* created, a truncated file when the write failed
Written(outcome, s) ==
    CASE outcome = "ok" -> [kind |-> "valid", session |-> s]
      [] outcome = "create_failed" -> file
      [] outcome = "write_failed" -> [kind |-> "corrupt", session |-> NoSession]

\* save_session(&session_file, &session).await.expect(..); return Ok(());
SetupSave ==
    /\ pc = "setup_save"
    /\ \E outcome \in {"ok", "create_failed", "write_failed"} :
          /\ Made("save", "", NoToken, outcome = "ok", NoToken)
          /\ file' = Written(outcome, session)
          /\ pc' = IF outcome = "ok" THEN "exit_ok" ELSE "panic"
    /\ UNCHANGED <<invocation, sent, addresses, idx, loaded, session, sync_settings,
                   client, rooms>>

\* ------------------------------------------------------------- send mode

\* ParseArgs with the words that are no room ids let through
ParseArgsLenient ==
    /\ pc = "parse_args"
    /\ pc' = IF Len(addresses) >= 1 THEN "read_stdin" ELSE "exit_usage"
    /\ UNCHANGED <<invocation, sent, addresses, idx, file, loaded, session, sync_settings,
                   client, rooms, log, call>>

\* let args = Args::parse(): every address parses as an OwnedRoomId and there
\* is at least one, or clap prints the error and exits with status 2
ParseArgs ==
    /\ pc = "parse_args"
    /\ pc' = IF addresses \in AddressLists THEN "read_stdin" ELSE "exit_usage"
    /\ UNCHANGED <<invocation, sent, addresses, idx, file, loaded, session, sync_settings,
                   client, rooms, log, call>>

\* tokio::io::stdin().read_to_string(&mut body).await?
ReadStdin ==
    /\ pc = "read_stdin"
    /\ \E ok \in BOOLEAN :
          IF ok
          THEN body' = stdin /\ pc' = "message"
          ELSE body' = body /\ pc' = "exit_err"
    /\ UNCHANGED <<argv0, mode, subject, stdin, message, homeserver, sent, addresses, idx,
                   file, loaded, session, sync_settings, client, rooms, log, call>>

\* let message = match args.subject { .. };
ComposeMessage ==
    /\ pc = "message"
    /\ message' = Message(subject, body)
    /\ pc' = "load_session"
    /\ UNCHANGED <<argv0, mode, subject, stdin, body, homeserver, sent, addresses, idx,
                   file, loaded, session, sync_settings, client, rooms, log, call>>

\* load_session(&session_file).await.expect("Error loading session")
LoadSession ==
    /\ pc = "load_session"
    /\ IF file.kind = "valid"
       THEN /\ session' = file.session
            /\ pc' = "build_client"
       ELSE /\ pc' = "panic"
            /\ UNCHANGED session
    /\ UNCHANGED <<invocation, sent, addresses, idx, file, loaded, sync_settings, client, rooms, log, call>>

\* Client::builder().homeserver_url(Url::parse(..)?).sqlite_store(..).build().await?
BuildClient ==
    /\ pc = "build_client"
    /\ \E built \in BOOLEAN :
          pc' = IF UrlParses(session.homeserver) /\ built THEN "restore_session"
                ELSE "exit_err"
    /\ UNCHANGED <<invocation, sent, addresses, idx, file, loaded, session, sync_settings, client, rooms, log, call>>

\* client.restore_session(auth_session).await.expect("Error restoring session")
RestoreSession ==
    /\ pc = "restore_session"
    /\ \E ok \in BOOLEAN :
          IF ok
          THEN /\ client' = [access_token |-> session.access_token,
                             refresh_token |-> session.refresh_token]
               /\ pc' = "sync_settings"
          ELSE /\ pc' = "panic"
               /\ UNCHANGED client
    /\ UNCHANGED <<invocation, sent, addresses, idx, file, loaded, session, sync_settings, rooms, log, call>>

\* InitSyncSettings without the `if let`: the stored token is never passed on
InitSyncSettingsFull ==
    /\ pc = "sync_settings"
    /\ sync_settings' = NoToken
    /\ pc' = "initial_sync"
    /\ UNCHANGED <<invocation, sent, addresses, idx, file, loaded, session, client, rooms, log, call>>

\* let mut sync_settings = ...; if let Some(sync_token) = session.sync_token {..}
InitSyncSettings ==
    /\ pc = "sync_settings"
    /\ sync_settings' = IF session.sync_token # NoToken THEN session.sync_token
                        ELSE NoToken
    /\ pc' = "initial_sync"
    /\ UNCHANGED <<invocation, sent, addresses, idx, file, loaded, session, client, rooms, log, call>>

\* the local room view after a successful sync response was applied: the
\* response carries the membership changes of any number of rooms
ViewsAfterSync == [Rooms -> RoomStates]

\* the token pair the client holds after a request: unchanged, or, when it
\* holds a refresh token, exchanged for the next pair
ClientsAfterRequest ==
    IF client.refresh_token = "rt1"
    THEN {client, [access_token |-> "at2", refresh_token |-> "rt2"]}
    ELSE {client}

\* RecordCheckpoint without the assignment to session.sync_token
RecordCheckpointSettingsOnly(next_batch) ==
    /\ sync_settings' = next_batch
    /\ session' = session

\* RecordCheckpoint without the reassignment of sync_settings
RecordCheckpointSessionOnly(next_batch) ==
    /\ sync_settings' = sync_settings
    /\ session' = [session EXCEPT !.sync_token = next_batch]

\* Ok(response) arm of both sync loops:
\*   sync_settings = sync_settings.token(response.next_batch.clone());
\*   session.sync_token = Some(response.next_batch.clone());
RecordCheckpoint(next_batch) ==
    /\ sync_settings' = next_batch
    /\ session' = [session EXCEPT !.sync_token = next_batch]

\* client.sync_once(sync_settings.clone()).await returned Ok(response)
SyncOnceOk(next_batch) ==
    /\ log' = <<Entry("sync", idx, TRUE)>>
    /\ call' = Call("sync", idx, "", sync_settings, TRUE, next_batch)
    /\ rooms' \in ViewsAfterSync
    /\ client' \in ClientsAfterRequest
    /\ RecordCheckpoint(next_batch)

\* SyncOnceErr with the token dropped after a failure: the retry is a full sync
SyncOnceErrResets ==
    /\ SyncFailures < MaxSyncFail
    /\ Made("sync", "", sync_settings, FALSE, NoToken)
    /\ sync_settings' = NoToken
    /\ UNCHANGED <<pc, invocation, sent, addresses, idx, file, loaded, session, client, rooms>>

\* client.sync_once(sync_settings.clone()).await returned Err(_): continue
SyncOnceErr ==
    /\ SyncFailures < MaxSyncFail
    /\ Made("sync", "", sync_settings, FALSE, NoToken)
    /\ UNCHANGED <<pc, invocation, sent, addresses, idx, file, loaded, session, sync_settings, client, rooms>>

\* "Initial sync." loop, Ok arm: break into the for loop
InitialSyncOk ==
    /\ pc = "initial_sync"
    /\ \E next_batch \in Tokens : SyncOnceOk(next_batch)
    /\ idx' = 1
    /\ pc' = "get_room"
    /\ UNCHANGED <<invocation, sent, addresses, file, loaded>>

\* InitialSyncErr with `break` in place of `continue`
InitialSyncErrBreaks ==
    /\ pc = "initial_sync"
    /\ SyncFailures < MaxSyncFail
    /\ Made("sync", "", sync_settings, FALSE, NoToken)
    /\ idx' = 1
    /\ pc' = "get_room"
    /\ UNCHANGED <<invocation, sent, addresses, file, loaded, session, sync_settings, client, rooms>>

\* "Initial sync." loop, Err arm
InitialSyncErr ==
    /\ pc = "initial_sync"
    /\ SyncOnceErr

\* the address of the current iteration of `for address in &args.addresses`
Address == addresses[idx]

\* IsJoined without the filter on the room's state: any known room passes
IsPresent(room_id) == rooms[room_id] # "absent"

\* client.get_room(room_id).filter(|room| room.state() == RoomState::Joined)
IsJoined(room_id) == rooms[room_id] = "joined"

\* room.send(content): the request of position i, to a room, with its text
Request(i, room, text) == [idx |-> i, room |-> room, text |-> text]

\* send_message: the match on get_room
GetRoom ==
    /\ pc = "get_room"
    /\ Made("get_room", Address, NoToken, IsJoined(Address), NoToken)
    /\ pc' = IF IsJoined(Address) THEN "send" ELSE "join_room"
    /\ UNCHANGED <<invocation, sent, addresses, idx, file, loaded, session, sync_settings, client, rooms>>

\* JoinRoom with a failed join request retried until it succeeds
JoinRoomRetrying ==
    /\ pc = "join_room"
    /\ \E ok \in BOOLEAN :
          /\ Made("join", Address, NoToken, ok, NoToken)
          /\ IF ok
             THEN /\ rooms' = [rooms EXCEPT ![Address] = "joined"]
                  /\ pc' = "send"
             ELSE /\ pc' = "join_room"
                  /\ UNCHANGED rooms
    /\ UNCHANGED <<invocation, sent, addresses, idx, file, loaded, session, sync_settings, client>>

\* JoinRoom with the Err of join_room_by_id swallowed: the send follows anyway
JoinRoomIgnoringError ==
    /\ pc = "join_room"
    /\ \E ok \in BOOLEAN :
          /\ Made("join", Address, NoToken, ok, NoToken)
          /\ rooms' = IF ok THEN [rooms EXCEPT ![Address] = "joined"] ELSE rooms
          /\ pc' = "send"
    /\ UNCHANGED <<invocation, sent, addresses, idx, file, loaded, session, sync_settings, client>>

\* send_message: None => client.join_room_by_id(room_id).await?
\* (the Err propagates to .expect("Error sending message to ..") in main)
JoinRoom ==
    /\ pc = "join_room"
    /\ \E ok \in BOOLEAN :
          /\ Made("join", Address, NoToken, ok, NoToken)
          /\ IF ok
             THEN /\ rooms' = [rooms EXCEPT ![Address] = "joined"]
                  /\ pc' = "send"
             ELSE /\ pc' = "panic"
                  /\ UNCHANGED rooms
    /\ UNCHANGED <<invocation, sent, addresses, idx, file, loaded, session, sync_settings, client>>

\* Send with the Err of room.send swallowed instead of propagated
SendIgnoringError ==
    /\ pc = "send"
    /\ \E ok \in BOOLEAN :
          /\ Made("send", Address, NoToken, ok, NoToken)
          /\ pc' = "sync_again"
    /\ sent' = Append(sent, Request(idx, Address, message))
    /\ UNCHANGED <<invocation, addresses, idx, file, loaded, session, sync_settings, client, rooms>>

\* send_message: room.send(content).await?
Send ==
    /\ pc = "send"
    /\ \E ok \in BOOLEAN :
          /\ Made("send", Address, NoToken, ok, NoToken)
          /\ pc' = IF ok THEN "sync_again" ELSE "panic"
    /\ sent' = Append(sent, Request(idx, Address, message))
    /\ UNCHANGED <<invocation, addresses, idx, file, loaded, session, sync_settings, client, rooms>>

\* SyncAgainOk with the session saved after every address
SyncAgainOkSaving ==
    /\ pc = "sync_again"
    /\ \E next_batch \in Tokens :
          /\ SyncOnceOk(next_batch)
          /\ file' = [kind |-> "valid",
                      session |-> [session EXCEPT !.sync_token = next_batch]]
    /\ IF idx < Len(addresses)
       THEN /\ idx' = idx + 1
            /\ pc' = "get_room"
       ELSE /\ idx' = idx
            /\ pc' = "save_session"
    /\ UNCHANGED <<invocation, sent, addresses, loaded>>

\* "Sync again." loop, Ok arm: break, next iteration of the for loop or leave it
SyncAgainOk ==
    /\ pc = "sync_again"
    /\ \E next_batch \in Tokens : SyncOnceOk(next_batch)
    /\ IF idx < Len(addresses)
       THEN /\ idx' = idx + 1
            /\ pc' = "get_room"
       ELSE /\ idx' = idx
            /\ pc' = "save_session"
    /\ UNCHANGED <<invocation, sent, addresses, file, loaded>>

\* SyncAgainErr with `break` in place of `continue`
SyncAgainErrBreaks ==
    /\ pc = "sync_again"
    /\ SyncFailures < MaxSyncFail
    /\ Made("sync", "", sync_settings, FALSE, NoToken)
    /\ IF idx < Len(addresses)
       THEN /\ idx' = idx + 1
            /\ pc' = "get_room"
       ELSE /\ idx' = idx
            /\ pc' = "save_session"
    /\ UNCHANGED <<invocation, sent, addresses, file, loaded, session, sync_settings, client, rooms>>

\* SyncAgainErr with the Err made fatal (.expect) instead of retried
SyncAgainErrFatal ==
    /\ pc = "sync_again"
    /\ SyncFailures < MaxSyncFail
    /\ Made("sync", "", sync_settings, FALSE, NoToken)
    /\ pc' = "panic"
    /\ UNCHANGED <<invocation, sent, addresses, idx, file, loaded, session, sync_settings, client, rooms>>

\* SyncAgainErr with the retry starting over at send_message
SyncAgainErrResends ==
    /\ pc = "sync_again"
    /\ SyncFailures < MaxSyncFail
    /\ Made("sync", "", sync_settings, FALSE, NoToken)
    /\ pc' = "get_room"
    /\ UNCHANGED <<invocation, sent, addresses, idx, file, loaded, session, sync_settings,
                   client, rooms>>

\* "Sync again." loop, Err arm
SyncAgainErr ==
    /\ pc = "sync_again"
    /\ SyncOnceErr

\* SessionToSave with the homeserver taken from the client, as setup mode does
SessionToSaveFromClient ==
    [session EXCEPT !.homeserver = UrlToString(session.homeserver),
                    !.access_token = client.access_token,
                    !.refresh_token = client.refresh_token]

\* session.access_token = ..; session.refresh_token = ..; (after the for loop)
SessionToSave ==
    [session EXCEPT !.access_token = client.access_token,
                    !.refresh_token = client.refresh_token]

\* SaveSession with the Err of save_session dropped: Ok(()) follows anyway
SaveSessionUnchecked ==
    /\ pc = "save_session"
    /\ session' = SessionToSave
    /\ \E outcome \in {"ok", "create_failed", "write_failed"} :
          /\ Made("save", "", NoToken, outcome = "ok", NoToken)
          /\ file' = Written(outcome, SessionToSave)
          /\ pc' = "exit_ok"
    /\ UNCHANGED <<invocation, sent, addresses, idx, loaded, sync_settings, client, rooms>>

\* save_session(&session_file, &session).await.expect("Error saving session")
\* with save_session: create_dir_all?, File::create?, to_vec?, write_all?
SaveSession ==
    /\ pc = "save_session"
    /\ session' = SessionToSave
    /\ \E outcome \in {"ok", "create_failed", "write_failed"} :
          /\ Made("save", "", NoToken, outcome = "ok", NoToken)
          /\ file' = Written(outcome, SessionToSave)
          /\ pc' = IF outcome = "ok" THEN "exit_ok" ELSE "panic"
    /\ UNCHANGED <<invocation, sent, addresses, idx, loaded, sync_settings, client, rooms>>

\* the process's exit status: Ok(()) from main is 0, Err from main is 1,
\* a usage error reported by clap is 2, a panic (.expect, .unwrap) is 101;
\* -1 while the run is in progress
ExitStatus ==
    CASE pc = "exit_ok" -> 0
      [] pc = "exit_err" -> 1
      [] pc = "exit_usage" -> 2
      [] pc = "panic" -> 101
      [] OTHER -> -1

Next ==
    \/ Dispatch
    \/ PromptHomeserver
    \/ PromptUser
    \/ Getpass
    \/ PromptDeviceName
    \/ PromptDisplayName
    \/ LoginBuildClient
    \/ LoginUsername
    \/ NewSession
    \/ SetupSave
    \/ ParseArgs
    \/ ReadStdin
    \/ ComposeMessage
    \/ LoadSession
    \/ BuildClient
    \/ RestoreSession
    \/ InitSyncSettings
    \/ InitialSyncOk
    \/ InitialSyncErr
    \/ GetRoom
    \/ JoinRoom
    \/ Send
    \/ SyncAgainOk
    \/ SyncAgainErr
    \/ SaveSession

Spec == Init /\ [][Next]_vars

\* every call returns (a step that can be taken is taken) and a sync that is
\* retried again and again eventually succeeds
FairSpec ==
    /\ InitFair
    /\ [][Next]_vars
    /\ WF_vars(Next)
    /\ SF_vars(InitialSyncOk \/ SyncAgainOk)

\* the same program over the subjects and bodies of InitMessage
SpecMessage == InitMessage /\ [][Next]_vars

\* the sync backend never returns a checkpoint older than the one requested
ServerMonotone == call.op = "sync" /\ call.ok => call.next_batch >= call.token

NextMonotone ==
    \/ Dispatch
    \/ PromptHomeserver
    \/ PromptUser
    \/ Getpass
    \/ PromptDeviceName
    \/ PromptDisplayName
    \/ LoginBuildClient
    \/ LoginUsername
    \/ NewSession
    \/ SetupSave
    \/ ParseArgs
    \/ ReadStdin
    \/ ComposeMessage
    \/ LoadSession
    \/ BuildClient
    \/ RestoreSession
    \/ InitSyncSettings
    \/ InitialSyncOk /\ ServerMonotone'
    \/ InitialSyncErr
    \/ GetRoom
    \/ JoinRoom
    \/ Send
    \/ SyncAgainOk /\ ServerMonotone'
    \/ SyncAgainErr
    \/ SaveSession

\* the runs against a sync backend whose checkpoints never go back
SpecMonotone == Init /\ [][NextMonotone]_vars

\* ---------------------------------------------------------------- history
Last == log[Len(log)]
Count(op) == Cardinality({k \in 1..Len(log) : log[k].op = op})
Has(e) == \E k \in 1..Len(log) : log[k] = e
Running == ExitStatus = -1
LastAddress == Len(addresses)

\* this step appends one call to the history
Appends == Len(log') = Len(log) + 1 /\ SubSeq(log', 1, Len(log)) = log

\* this step is a successful sync: it starts the history afresh
StartsAfresh == log' = <<Entry("sync", idx, TRUE)>> /\ call'.op = "sync" /\ call'.ok

\* ---------------------------------------------------------------- claims

\* C1: in a send-mode run the bootstrap sync succeeds before any address is
\* looked up, joined or sent to; addresses are handled one at a time in
\* command-line order, each as get_room, join (when needed), send, sync;
\* address i+1 is looked up only after a sync issued after the send to
\* address i has succeeded; and the session file is written only after the
\* sync that follows the send to the last address has succeeded.
C1_SequentialOrder ==
    /\ [](mode = "send" =>
          /\ idx = 0 => \A k \in 1..Len(log) : log[k] = Entry("sync", 0, FALSE)
          /\ idx >= 1 =>
                /\ Len(log) >= 1
                /\ log[1].op = "sync" /\ log[1].ok
                /\ \A k \in 2..Len(log) :
                      /\ log[k].idx = idx
                      /\ log[k].op = "get_room" => k = 2 /\ log[1].idx = idx - 1
                      /\ log[k].op = "join" => k = 3 /\ log[2].op = "get_room"
                      /\ log[k].op = "send" =>
                            /\ log[2].op = "get_room"
                            /\ k = 3 \/ (k = 4 /\ log[3].op = "join")
                      /\ log[k].op = "sync" =>
                            /\ ~log[k].ok
                            /\ \E j \in 2..(k - 1) : log[j] = Entry("send", idx, TRUE)
                      /\ log[k].op = "save" =>
                            k = 2 /\ log[1] = Entry("sync", LastAddress, TRUE)
          /\ call.op \in {"get_room", "join", "send"} =>
                call.idx = idx /\ call.room = addresses[idx])
    /\ [][mode = "send" /\ log' # log =>
            \/ Appends
            \/ /\ StartsAfresh
               /\ idx = 0 \/ Has(Entry("send", idx, TRUE))
               /\ idx' = IF idx < LastAddress THEN idx + 1 ELSE idx]_vars

\* the second of two addresses had to be joined and has just been sent to
C1_Witness ==
    /\ Len(addresses) = 2
    /\ addresses[1] # addresses[2]
    /\ log = <<Entry("sync", 1, TRUE), Entry("get_room", 2, FALSE),
               Entry("join", 2, TRUE), Entry("send", 2, TRUE)>>

\* C2: when the join or the send for address k fails, the run stops there:
\* nothing is issued afterwards, the session file is exactly as it was
\* loaded, and the process ends with a failure status.
C2_FailFast ==
    \A k \in 1..Len(log) :
       log[k].op \in {"join", "send"} /\ ~log[k].ok =>
          /\ k = Len(log)
          /\ call.op = log[k].op /\ call.idx = idx
          /\ pc = "panic"
          /\ ExitStatus # 0
          /\ file = loaded
          /\ ~ENABLED Next

\* the send to the second address failed after the first was delivered and
\* synced: the checkpoint and tokens obtained meanwhile exist only in memory
C2_Witness ==
    /\ call.op = "send"
    /\ Last = Entry("send", 2, FALSE)
    /\ session.sync_token # loaded.session.sync_token
    /\ client.access_token # loaded.session.access_token
    /\ file = loaded

\* C3 as stated: the sync after a send is requested exactly once per delivered
\* address, and its failure is fatal: the run ends there with the session
\* file as loaded.
C3_Original ==
    \A k \in 1..Len(log) :
       log[k].op = "sync" /\ log[k].idx >= 1 /\ ~log[k].ok =>
          /\ k = Len(log)
          /\ pc = "panic"
          /\ file = loaded

\* C3, amended: the sync after a send is requested until it succeeds: a
\* failed request leaves the run in the loop, about to repeat the request
\* with the same checkpoint, and never ends the run; every step of the loop
\* is one more request for the same address, and the loop is left only by a
\* successful one, so exactly one request per delivered address succeeds.
C3_RefreshSyncRetried ==
    /\ [](\A k \in 1..Len(log) :
            log[k].op = "sync" /\ log[k].idx >= 1 /\ ~log[k].ok =>
               /\ Has(Entry("send", idx, TRUE))
               /\ k < Len(log) => log[k + 1] = Entry("sync", idx, FALSE)
               /\ pc = "sync_again"
               /\ Running
               /\ log[k].idx = idx
               /\ sync_settings = call.token)
    /\ [][pc = "sync_again" =>
            /\ call'.op = "sync" /\ call'.idx = idx /\ call'.token = sync_settings
            /\ IF call'.ok
               THEN pc' = IF idx < LastAddress THEN "get_room" ELSE "save_session"
               ELSE pc' = "sync_again" /\ idx' = idx]_vars

\* the sync after the first send has failed and the run is still in the loop
C3_Witness ==
    /\ call.op = "sync"
    /\ Last = Entry("sync", 1, FALSE)
    /\ Has(Entry("send", 1, TRUE))
    /\ pc = "sync_again"
    /\ ENABLED SyncAgainOk

\* the client learns of membership events only from sync responses
MembershipEventSeen(j, k) ==
    \E m \in (j + 1)..(k - 1) : log[m].op = "sync" /\ log[m].ok

C5_SendOnlyWhenReady ==
    /\ \A k \in 1..Len(log) :
          log[k].op = "send" =>
             \E j \in 1..(k - 1) :
                log[j] \in {Entry("get_room", idx, TRUE), Entry("join", idx, TRUE)}
    /\ \A k \in 1..Len(log) :
          log[k].op = "join" /\ ~log[k].ok =>
             Count("send") = 0 /\ pc = "panic" /\ ~ENABLED Send
    /\ pc = "send" => rooms[addresses[idx]] = "joined"
    /\ call.op = "send" => call.room = addresses[idx] /\ rooms[call.room] = "joined"

\* an address was sent to after its join request returned
C5_Witness ==
    /\ call.op = "send"
    /\ call.ok
    /\ Has(Entry("join", idx, TRUE))
    /\ ~Has(Entry("get_room", idx, TRUE))

\* C6: an address that is joined in the local view at get_room gets no join
\* request and is sent to directly; a join request is made only for an
\* address that is absent from the view or in a state other than joined.
C6_NoJoinWhenJoined ==
    /\ call.op = "get_room" =>
          /\ call.ok <=> rooms[call.room] = "joined"
          /\ pc = IF rooms[call.room] = "joined" THEN "send" ELSE "join_room"
    /\ call.op = "join" =>
          /\ log[Len(log) - 1] = Entry("get_room", idx, FALSE)
          /\ rooms[call.room] = IF call.ok THEN "joined" ELSE rooms[call.room]
    /\ \A g \in 1..Len(log) :
          log[g] = Entry("get_room", idx, TRUE) =>
             /\ Count("join") = 0
             /\ g < Len(log) => log[g + 1].op = "send"
    /\ \A j \in 1..Len(log) :
          log[j].op = "join" => j > 1 /\ log[j - 1] = Entry("get_room", idx, FALSE)

\* an address the view holds as joined is being sent to with no join request
C6_Witness ==
    /\ pc = "send"
    /\ idx = 2
    /\ call = Call("get_room", 2, addresses[2], NoToken, TRUE, NoToken)
    /\ Count("join") = 0

\* C7: the bootstrap sync never fails the run: a failed attempt leaves the
\* run at the head of the loop, where the next call is another attempt;
\* nothing but sync attempts is issued before the first successful one; the
\* loop is left on the first success and only then, and that response's
\* next_batch is the session's sync_token.
C7_BootstrapRetries ==
    /\ [](/\ \A k \in 1..Len(log) :
                log[k] = Entry("sync", 0, FALSE) =>
                   /\ pc = "initial_sync"
                   /\ Running
                   /\ ENABLED InitialSyncOk
                   /\ ~ENABLED (GetRoom \/ JoinRoom \/ Send \/ SaveSession)
          /\ pc = "initial_sync" =>
                idx = 0 /\ \A k \in 1..Len(log) : log[k] = Entry("sync", 0, FALSE)
          /\ call.op = "sync" /\ call.idx = 0 /\ call.ok =>
                session.sync_token = call.next_batch /\ pc = "get_room")
    /\ [][pc = "initial_sync" =>
            /\ call'.op = "sync" /\ call'.idx = 0
            /\ IF call'.ok
               THEN pc' = "get_room" /\ session'.sync_token = call'.next_batch
               ELSE pc' = "initial_sync" /\ session' = session]_vars

\* the bootstrap sync has failed and the run is back at the head of the loop
C7_Witness ==
    /\ log = <<Entry("sync", 0, FALSE)>>
    /\ pc = "initial_sync"
    /\ call.token = loaded.session.sync_token

\* C8: every bootstrap sync request carries the sync_token of the loaded
\* session, or no token when the loaded session has none; afterwards the
\* session's sync_token is the next_batch of the successful response.
C8_BootstrapToken ==
    /\ pc = "initial_sync" => sync_settings = loaded.session.sync_token
    /\ call.op = "sync" /\ call.idx = 0 => call.token = loaded.session.sync_token
    /\ call.op = "sync" /\ call.idx = 0 /\ call.ok =>
          /\ session.sync_token = call.next_batch
          /\ session.sync_token # NoToken

\* first run: no stored sync_token, a full sync, the returned checkpoint stored
C8_Witness ==
    /\ loaded.session.sync_token = NoToken
    /\ call = Call("sync", 0, "", NoToken, TRUE, 2)
    /\ session.sync_token = 2

\* C9: in send mode, against a backend whose checkpoints never go back, the session's
\* sync_token never moves backwards: no step lowers it, the value stored
\* after a successful sync is at or after the token of the request, and the
\* sync_token written to the file is at or after the one loaded.
C9_NeverBackwards ==
    /\ [][session'.sync_token >= session.sync_token]_vars
    /\ [](/\ call.op = "sync" /\ call.ok => session.sync_token >= call.token
          /\ mode = "send" /\ session # NoSession =>
                session.sync_token >= loaded.session.sync_token
          /\ mode = "send" /\ call.op = "save" /\ call.ok =>
                file.session.sync_token >= loaded.session.sync_token)

\* a stored checkpoint, advanced by the run and written back
C9_Witness ==
    /\ loaded.session.sync_token = 1
    /\ call.op = "save"
    /\ call.ok
    /\ file.session.sync_token = 2

\* C10: in send mode the session file is written at most once per run, as the last call
\* of the run, after the last address has been sent to and synced; until
\* then the file is as it was loaded, between addresses and after a failed
\* join or send included.
C10_SavedOnceAtEnd ==
    /\ [](mode = "send" =>
          /\ Count("save") <= 1
          /\ Count("save") = 1 =>
                /\ log = <<Entry("sync", LastAddress, TRUE), Entry("save", LastAddress, Last.ok)>>
                /\ pc = IF Last.ok THEN "exit_ok" ELSE "panic"
          /\ Count("save") = 0 => file = loaded)
    /\ [][mode = "send" /\ (file' # file \/ call'.op = "save") =>
            /\ pc = "save_session"
            /\ idx = LastAddress
            /\ log = <<Entry("sync", LastAddress, TRUE)>>
            /\ pc' \in {"exit_ok", "panic"}]_vars

\* two addresses delivered, then the one write of the session
C10_Witness ==
    /\ pc = "exit_ok"
    /\ Len(addresses) = 2
    /\ Count("save") = 1
    /\ file.session.sync_token # loaded.session.sync_token

\* C11: in setup mode a failure of any step of the enrollment (a prompt, the
\* password read, the parse of the homeserver URL or the client build, the
\* login) ends the run with a non-zero status and the session file as it
\* was; the file is written only after the login has succeeded.
C11_EnrollmentFailure ==
    /\ [](mode = "setup" =>
          /\ Count("save") = 0 => file = loaded
          /\ Count("save") > 0 => Has(Entry("login", 0, TRUE))
          /\ pc \in Exits /\ ~Has(Entry("login", 0, TRUE)) =>
                ExitStatus \in {1, 101} /\ file = loaded)
    /\ [][mode = "setup" =>
            /\ log' # log /\ ~call'.ok =>
                  /\ ExitStatus' \in {1, 101}
                  /\ call'.op # "save" => file' = loaded
            /\ file' # file => pc = "setup_save" /\ Has(Entry("login", 0, TRUE))]_vars

\* the login is refused: status 1, the session file of an earlier setup intact
C11_Witness ==
    /\ mode = "setup"
    /\ call.op = "login"
    /\ ~call.ok
    /\ pc = "exit_err"
    /\ file.kind = "valid"
    /\ file = loaded

\* the calls of setup mode and the calls of send mode
SetupOps == {"prompt", "getpass", "build", "login", "save"}
SendOps == {"sync", "get_room", "join", "send", "save"}

\* C12: the mode is decided by the last path component of argv[0]: send mode
\* exactly when it is mail or mailx, setup mode otherwise.  A setup-mode run
\* only enrolls and writes the session at most once, without sync_token; it
\* never loads the session, syncs, joins or sends.  A send-mode run never
\* prompts or logs in.
C12_ModeByName ==
    /\ mode = "send" => argv0[Len(argv0)] \in {"mail", "mailx"}
    /\ mode = "setup" => argv0[Len(argv0)] \notin {"mail", "mailx"}
    /\ mode = "start" => pc = "dispatch" \/ (pc = "panic" /\ argv0[Len(argv0)] = "..")
    /\ mode = "setup" =>
          /\ pc \in SetupPcs \cup Exits
          /\ \A k \in 1..Len(log) : log[k].op \in SetupOps
          /\ call.op \in SetupOps \cup {"none"}
          /\ Count("save") <= 1
          /\ sent = <<>>
          /\ session.sync_token = NoToken
          /\ file # loaded /\ file.kind = "valid" => file.session.sync_token = NoToken
    /\ mode = "send" =>
          /\ pc \in SendPcs \cup Exits
          /\ \A k \in 1..Len(log) : log[k].op \in SendOps
          /\ call.op \in SendOps \cup {"none"}
          /\ homeserver = ""

\* run from a directory called mail under another name: setup mode, the
\* session written without sync_token over one that had it
C12_Witness ==
    /\ argv0 = <<"mail", "matrixmail">>
    /\ mode = "setup"
    /\ pc = "exit_ok"
    /\ loaded.session.sync_token # NoToken
    /\ file # loaded
    /\ file.session.sync_token = NoToken

\* C13: in send mode, an address that is no room id, a session file that is
\* absent, unreadable or not well-formed, or a stored homeserver URL that
\* does not parse, ends the run with a failure status before any sync, join
\* or send, with the session file as it was and without entering setup mode.
C13_RejectedBeforeNetwork ==
    LET malformed == \E k \in 1..Len(addresses) : addresses[k] \notin Rooms
        unloadable == loaded.kind \in {"absent", "corrupt"}
        unparseable == loaded.kind = "valid" /\ loaded.session.homeserver = "not a url"
    IN  mode = "send" /\ (malformed \/ unloadable \/ unparseable) =>
            /\ log = <<>>
            /\ sent = <<>>
            /\ file = loaded
            /\ client = NoClient
            /\ pc \in {"parse_args", "read_stdin", "message", "load_session", "build_client",
                       "exit_usage", "exit_err", "panic"}
            /\ malformed => pc \in {"parse_args", "exit_usage"}
            /\ unloadable => pc # "build_client"
            /\ pc \notin Exits => ENABLED Next

\* the stored homeserver is no URL: the body was read and the session loaded,
\* then the run ended with status 1 without a request
C13_Witness ==
    /\ mode = "send"
    /\ loaded.session.homeserver = "not a url"
    /\ session = loaded.session
    /\ body = stdin
    /\ pc = "exit_err"
    /\ call = NoCall

\* the run delivered: one send request per address, in order, each with the
\* message, the sync after the last one succeeded and the session was saved
Delivered ==
    /\ Len(sent) = Len(addresses)
    /\ \A i \in 1..Len(addresses) : sent[i] = Request(i, addresses[i], message)
    /\ log = <<Entry("sync", LastAddress, TRUE), Entry("save", LastAddress, TRUE)>>

\* C14: when every call returns and a sync retried forever eventually
\* succeeds, every send-mode run ends, and no step follows the end.  Its
\* status is zero exactly when every address was sent to, the sync after
\* each send succeeded and the session was saved; it is non-zero when the
\* session load, the session restore, a join, a send or the final save
\* failed.
C14_Terminates ==
    /\ [](mode = "send" => <>(pc \in Exits))
    /\ [][pc \notin Exits]_vars
    /\ [](mode = "send" => (ExitStatus = 0 <=> Delivered))
    /\ [][mode = "send" =>
            LET load_failed == pc = "load_session" /\ file.kind # "valid"
                restore_failed == pc = "restore_session" /\ pc' # "sync_settings"
                call_failed == /\ log' # log
                               /\ call'.op \in {"join", "send", "save"}
                               /\ ~call'.ok
            IN  load_failed \/ restore_failed \/ call_failed =>
                    ExitStatus' \in {1, 101}]_vars

\* a one-address run that delivered, saved the session and ended with status zero
C14_Witness ==
    /\ mode = "send"
    /\ pc = "exit_ok"
    /\ Len(sent) = 1
    /\ ExitStatus = 0
    /\ file.session.sync_token = session.sync_token
    /\ file # loaded

\* t is s without its leading and trailing whitespace: s is a run of
\* whitespace, then t, then a run of whitespace, and t neither starts nor
\* ends with whitespace
IsTrimmed(t, s) ==
    \E i \in 0..Len(s) :
        /\ i + Len(t) <= Len(s)
        /\ t = SubSeq(s, i + 1, i + Len(t))
        /\ \A k \in 1..i : IsWhitespace(s[k])
        /\ \A k \in (i + Len(t) + 1)..Len(s) : IsWhitespace(s[k])
        /\ t # <<>> => ~IsWhitespace(t[1]) /\ ~IsWhitespace(t[Len(t)])

\* the contiguous pieces of s
PiecesOf(s) == {SubSeq(s, i, j) : i \in 1..(Len(s) + 1), j \in 0..Len(s)}

\* C15: the message is built once per run, before any request: the trimmed
\* subject, a blank line and the trimmed body when a subject was given, the
\* trimmed body alone otherwise; every send request of the run carries that
\* same message.
C15_MessageComposed ==
    /\ [][pc = "message" =>
            /\ log = <<>> /\ client = NoClient
            /\ pc' = "load_session"
            /\ \E tb \in PiecesOf(body) :
                  /\ IsTrimmed(tb, body)
                  /\ ~subject.some => message' = tb
                  /\ subject.some =>
                        \E ts \in PiecesOf(subject.text) :
                            /\ IsTrimmed(ts, subject.text)
                            /\ message' = ts \o <<"\n", "\n">> \o tb]_vars
    /\ [][/\ message' # message => pc = "message"
          /\ pc' = "message" => pc = "read_stdin" /\ body' = stdin]_vars
    /\ [](\A k \in 1..Len(sent) : sent[k].text = message)

\* subject " a\n" and body "a ": the message "a\n\na" sent to two rooms
C15_Witness ==
    /\ subject = Some(<<" ", "a", "\n">>)
    /\ body = <<"a", " ">>
    /\ message = <<"a", "\n", "\n", "a">>
    /\ Len(sent) = 2
    /\ sent[1] = Request(1, "!a:hs", message)
    /\ sent[2] = Request(2, "!b:hs", message)

\* C16: once the bootstrap sync has succeeded, session.sync_token is the
\* next_batch of the most recent successful sync and is the token the next
\* sync request carries: only a successful sync changes it, to the
\* next_batch returned, and every later request is made with it.  The token
\* written to the session file is the one of the last successful sync.
C16_CheckpointTracksSync ==
    /\ [](mode = "send" /\ idx >= 1 =>
          /\ session.sync_token # NoToken
          /\ sync_settings = session.sync_token
          /\ call.op = "sync" /\ call.ok => session.sync_token = call.next_batch
          /\ call.op = "sync" /\ ~call.ok => call.token = session.sync_token)
    /\ [][mode = "send" /\ idx >= 1 =>
            /\ session'.sync_token # session.sync_token =>
                  StartsAfresh /\ session'.sync_token = call'.next_batch
            /\ log' # log /\ call'.op = "sync" => call'.token = session.sync_token
            /\ pc = "save_session" =>
                  /\ call.op = "sync" /\ call.ok
                  /\ call'.ok => file'.session.sync_token = call.next_batch]_vars

\* the sync after the first send was made with checkpoint 2 and returned 1:
\* the session and the settings of the next request hold 1
C16_Witness ==
    /\ call = Call("sync", 1, "", 2, TRUE, 1)
    /\ session.sync_token = 1
    /\ sync_settings = 1
    /\ idx = 2

\* C17: the session written at the end of a successful send-mode run has the
\* homeserver, user_id and device_id of the session that was loaded; its
\* access_token and refresh_token are the pair the client holds at that
\* moment and its sync_token the session's; during the run the session in
\* memory keeps the three identity fields as loaded.
C17_IdentityPreserved ==
    /\ mode = "send" /\ session # NoSession =>
          /\ session.homeserver = loaded.session.homeserver
          /\ session.user_id = loaded.session.user_id
          /\ session.device_id = loaded.session.device_id
    /\ mode = "send" /\ call.op = "save" /\ call.ok =>
          /\ file.kind = "valid"
          /\ file.session.homeserver = loaded.session.homeserver
          /\ file.session.user_id = loaded.session.user_id
          /\ file.session.device_id = loaded.session.device_id
          /\ file.session.access_token = client.access_token
          /\ file.session.refresh_token = client.refresh_token
          /\ file.session.sync_token = session.sync_token

\* the client exchanged its tokens during the run: the file holds the new
\* pair and the homeserver string as it was loaded
C17_Witness ==
    /\ mode = "send"
    /\ call.op = "save"
    /\ call.ok
    /\ loaded.session.access_token = "at1"
    /\ file.session.access_token = "at2"
    /\ file.session.refresh_token = "rt2"
    /\ file.session.homeserver = "https://hs.example"

\* C18: send mode issues requests only with a valid session: whenever a
\* sync, join or send request has been issued, the session in use has a
\* non-empty homeserver, user_id, device_id and access_token; and a stored
\* session in which one of them is empty is rejected before any request.
C18_ValidSessionOnly ==
    LET Valid(s) ==
            /\ s.homeserver # ""
            /\ s.user_id # ""
            /\ s.device_id # ""
            /\ s.access_token # ""
    IN  /\ mode = "send" /\ call.op \in {"sync", "join", "send"} => Valid(session)
        /\ mode = "send" /\ loaded.kind = "valid" /\ ~Valid(loaded.session) =>
              log = <<>> /\ pc # "initial_sync"

\* a stored session whose access_token is the empty string was loaded and
\* restored, and a sync request was issued with it
C18_Witness ==
    /\ mode = "send"
    /\ loaded.session = EmptyTokenSession
    /\ session.access_token = ""
    /\ client.access_token = ""
    /\ call.op = "sync"
    /\ call.idx = 0

\* the send requests issued for position i of the address list
SentAt(i) == {k \in 1..Len(sent) : sent[k].idx = i}

\* C19: a sync retry never sends again: for every position of the address
\* list at most one send request is issued, whatever number of bootstrap or
\* post-send sync attempts failed; a run that ends with status zero issued
\* exactly one send request per position, to the address listed there (an
\* address listed twice is sent to twice).
C19_NoResend ==
    /\ \A i \in 1..Len(addresses) : Cardinality(SentAt(i)) <= 1
    /\ \A k \in 1..Len(sent) : sent[k].idx = k /\ sent[k].room = addresses[k]
    /\ call.op = "sync" /\ ~call.ok /\ idx >= 1 => Len(sent) = idx
    /\ mode = "send" /\ pc = "exit_ok" =>
          \A i \in 1..Len(addresses) : Cardinality(SentAt(i)) = 1

\* the sync after the second send to the same room has just failed: two
\* send requests so far, one per position
C19_Witness ==
    /\ addresses = <<"!a:hs", "!a:hs">>
    /\ call = Call("sync", 2, "", sync_settings, FALSE, NoToken)
    /\ Len(sent) = 2
    /\ sent[1].room = sent[2].room
    /\ pc = "sync_again"

\* C20: a failed sync attempt changes nothing: the step of a failed request,
\* in the bootstrap loop or after a send, leaves session.sync_token, the
\* token of the next request, the position in the run and the session file
\* as they were; the call that follows a failed request is again a sync
\* request, for the same position and with the same token, so no join or
\* send comes between a failed attempt and its retry.
C20_FailedSyncChangesNothing ==
    /\ [][log' # log /\ call'.op = "sync" /\ ~call'.ok =>
            /\ session' = session
            /\ sync_settings' = sync_settings
            /\ call'.token = sync_settings
            /\ pc' = pc /\ idx' = idx
            /\ sent' = sent
            /\ file' = file]_vars
    /\ [][call.op = "sync" /\ ~call.ok /\ log' # log =>
            /\ call'.op = "sync"
            /\ call'.idx = call.idx
            /\ call'.token = call.token]_vars
    /\ [](call.op = "sync" /\ ~call.ok =>
            /\ sync_settings = call.token
            /\ ~ENABLED (GetRoom \/ JoinRoom \/ Send \/ SaveSession))

\* the sync after the first send failed with checkpoint 2 in the request:
\* the session and the next request still hold 2
C20_Witness ==
    /\ call = Call("sync", 1, "", 2, FALSE, NoToken)
    /\ session.sync_token = 2
    /\ sync_settings = 2
    /\ pc = "sync_again"
    /\ Len(sent) = 1


====
